---------------------------- MODULE Spec2Model ----------------------------
(* Model of hyperliquid-rust-sdk-utils: the Price value model              *)
(* (src/types/price.rs, src/types/meta.rs), the price ingestion pipelines  *)
(* (src/prices.rs) and the orderbook mirror (src/orderbooks.rs,            *)
(* src/types/orderbook.rs), with the tokio watch channel they publish on.  *)
EXTENDS Integers, Sequences, FiniteSets, TLC

(***************************************************************************)
(* Bounds of the model.                                                    *)
(***************************************************************************)
\* Stands for the literal 100_000 of the `while i < 100_000` loops.
TickBound == 2
\* Largest number of live watch::Receiver handles of one channel.
MaxReceivers == 2

(***************************************************************************)
(* Numbers.  An f64 price is modelled by its decimal expansion: integer    *)
(* part `ip` and fractional digits `fr` without trailing zeros.            *)
(***************************************************************************)
I32Max == 2147483647
U16Modulus == 65536

Dec(ip, fr) == [ip |-> ip, fr |-> fr]
Zero == Dec(0, <<>>)

RECURSIVE Pow10(_)
Pow10(n) == IF n <= 0 THEN 1 ELSE 10 * Pow10(n - 1)

RECURSIVE NumDigits(_)
NumDigits(n) == IF n < 10 THEN 1 ELSE 1 + NumDigits(n \div 10)

\* The first n fractional digits of fr as an integer (missing digits are 0).
RECURSIVE FracPrefix(_, _)
FracPrefix(fr, n) ==
    IF n = 0 THEN 0
    ELSE 10 * FracPrefix(fr, n - 1) + (IF n <= Len(fr) THEN fr[n] ELSE 0)

\* The n digits of f, leading zeros included.
RECURSIVE Digits(_, _)
Digits(f, n) ==
    IF n = 0 THEN <<>> ELSE Append(Digits(f \div 10, n - 1), f % 10)

RECURSIVE StripZeros(_)
StripZeros(ds) ==
    IF ds = <<>> THEN <<>>
    ELSE IF ds[Len(ds)] = 0 THEN StripZeros(SubSeq(ds, 1, Len(ds) - 1))
    ELSE ds

\* The n-digit fractional part f as the digits a parsed f64 keeps.
FracDigits(f, n) == StripZeros(Digits(f, n))

\* Index of the first non-zero fractional digit, 0 when there is none.
RECURSIVE FirstNonZero(_, _)
FirstNonZero(fr, j) ==
    IF j > Len(fr) THEN 0
    ELSE IF fr[j] # 0 THEN j ELSE FirstNonZero(fr, j + 1)

\* TRUE when some digit of fr after position n is non-zero.
TailNonZero(fr, n) == \E j \in (n + 1)..Len(fr) : fr[j] # 0

\* format!("{:.*}", n, price).parse::<f64>(): the decimal expansion is cut
\* to n fractional digits, rounded to nearest, an exact half going to the
\* even neighbour, and the printed string is read back.
FormatParse(d, n) ==
    LET keep == FracPrefix(d.fr, n)
        next == IF n < Len(d.fr) THEN d.fr[n + 1] ELSE 0
        up   == \/ next > 5
                \/ next = 5 /\ TailNonZero(d.fr, n + 1)
                \/ next = 5 /\ ~TailNonZero(d.fr, n + 1)
                            /\ (IF n = 0 THEN d.ip ELSE keep) % 2 = 1
        f    == keep + (IF up THEN 1 ELSE 0)
        carry == f = Pow10(n)
    IN  Dec(IF carry THEN d.ip + 1 ELSE d.ip,
            IF carry THEN <<>> ELSE FracDigits(f, n))


(***************************************************************************)
(* State.                                                                  *)
(***************************************************************************)
VARIABLES
    build,      \* "debug" (overflow checks on) or "release" (wrapping)
    task,       \* the pipeline whose task the program spawns
    workers,    \* worker threads of the executor the tasks are spawned on
    pc,         \* per pipeline: position of its supervisor task
    sub,        \* per pipeline: state of the current feed subscription
    closed,     \* per pipeline: the inbound mpsc channel returned None
    i,          \* per pipeline: tick counter of start_sending
    table,      \* per pipeline: price table / orderbook owned by the task
    batch,      \* per pipeline: price batch or book snapshot being applied
    pending,    \* per pipeline: keys of the batch not yet applied
    chan,       \* per pipeline: value held by the watch channel
    receivers,  \* per pipeline: number of live watch::Receiver handles
    result,     \* per pipeline: how the current iteration ended
    lastMsg,    \* per pipeline: kind of the last feed message received
    lastPub,    \* per pipeline: the table handed to the last successful send
    lastRead,   \* per pipeline: the table returned by the last borrow()
    consumed,   \* per pipeline: batches/snapshots consumed on this subscription
    sends,      \* per pipeline: successful publishes on this subscription
    unsubs,     \* per pipeline: unsubscribe calls for this subscription
    val,        \* a Price value held by a caller of the Price operations
    prev,       \* that value before the last operation on it
    call,       \* the last Price operation called, with its arguments
    ret,        \* the f64 the last call returned
    crashed     \* the last call panicked

\* The state of a caller of the Price operations.
pvars == <<val, prev, call, ret, crashed>>

vars == <<build, task, workers, pc, sub, closed, i, table, batch, pending, chan,
          receivers, result, lastMsg, lastPub, lastRead, consumed, sends,
          unsubs, val, prev, call, ret, crashed>>

PricePipes == {"perp", "spot"}
Pipes == PricePipes \cup {"book"}

EmptyMap == <<>>

(***************************************************************************)
(* Metadata (src/types/meta.rs).                                           *)
(***************************************************************************)
SpotAssetMeta(name, sz, wei, index) ==
    [sz_decimals |-> sz, wei_decimals |-> wei, name |-> name, index |-> index]

MetaSpot(name, quote, base) ==
    [tag |-> "Spot", name |-> name, quote |-> quote, base |-> base]

MetaPerp(name, sz, lev) ==
    [tag |-> "Perp", name |-> name, sz_decimals |-> sz, max_leverage |-> lev,
     only_isolated |-> "None", is_delisted |-> "None"]

get_sz_decimals(meta) ==
    IF meta.tag = "Spot" THEN meta.quote.sz_decimals ELSE meta.sz_decimals

is_spot(meta) == meta.tag = "Spot"
is_perp(meta) == meta.tag = "Perp"

\* The metadata listings the two one-shot requests return.
PerpCatalog ==
    [k \in {"BTC", "ETH"} |->
        IF k = "BTC" THEN MetaPerp("BTC", 5, 50) ELSE MetaPerp("ETH", 4, 50)]

SpotCatalog ==
    [k \in {"@1", "@2"} |->
        IF k = "@1"
        THEN MetaSpot("@1", SpotAssetMeta("PURR", 5, 18, 1),
                            SpotAssetMeta("USDC", 8, 8, 0))
        ELSE MetaSpot("@2", SpotAssetMeta("HFUN", 2, 8, 2),
                            SpotAssetMeta("USDC", 8, 8, 0))]

Catalog(p) == IF p = "perp" THEN PerpCatalog ELSE SpotCatalog

(***************************************************************************)
(* Price (src/types/price.rs).                                             *)
(***************************************************************************)
SignificantDigits == 5
SpotMaxDecimals == 8
PerpMaxDecimals == 6

OverflowChecks == build = "debug"

I32Min == (-I32Max) - 1

\* price.abs().log10().floor() as i32; log10(0.0) is -inf, which the cast
\* saturates to i32::MIN.
order_of_magnitude(price) ==
    IF price.ip > 0 THEN NumDigits(price.ip) - 1
    ELSE IF FirstNonZero(price.fr, 1) > 0 THEN -FirstNonZero(price.fr, 1)
    ELSE I32Min

\* a - b leaves the i32 range.
SubOverflowsI32(a, b) ==
    IF b < 0 THEN a > I32Max + b ELSE a < I32Min + b
\* a - b in two's complement, as a build without overflow checks computes it.
WrappingSubI32(a, b) ==
    IF ~SubOverflowsI32(a, b) THEN a - b
    ELSE IF b < 0 THEN (((a - I32Max) - b) - I32Max) - 2
    ELSE (((a + I32Max) - b) + I32Max) + 2

\* max_decimals - sz_decimals in u16.
max_decimal_places(max_decimals, sz_decimals) ==
    IF sz_decimals > max_decimals
    THEN (U16Modulus + max_decimals) - sz_decimals
    ELSE max_decimals - sz_decimals

\* The arithmetic of round_price panics in a build with overflow checks.
round_price_panics(price, max_decimals, sz_decimals) ==
    /\ OverflowChecks
    /\ \/ sz_decimals > max_decimals
       \/ SubOverflowsI32(SignificantDigits, order_of_magnitude(price))

\* A rounding that keeps one significant digit more.
round_price_six_digits(price, max_decimals, sz_decimals) ==
    LET needed0 == WrappingSubI32(
                       WrappingSubI32(SignificantDigits + 1,
                                      order_of_magnitude(price)), 1)
        needed  == IF needed0 < 0 THEN 0 ELSE needed0
        cap     == max_decimal_places(max_decimals, sz_decimals)
        actual  == IF needed > cap THEN cap ELSE needed
    IN  FormatParse(price, actual)

round_price(price, max_decimals, sz_decimals) ==
    LET needed0 == WrappingSubI32(
                       WrappingSubI32(SignificantDigits,
                                      order_of_magnitude(price)), 1)
        needed  == IF needed0 < 0 THEN 0 ELSE needed0
        cap     == max_decimal_places(max_decimals, sz_decimals)
        actual  == IF needed > cap THEN cap ELSE needed
    IN  FormatParse(price, actual)

PriceNone == [tag |-> "None"]
PriceSpot(price, meta) == [tag |-> "Spot", price |-> price, meta |-> meta]
PricePerp(price, meta) == [tag |-> "Perp", price |-> price, meta |-> meta]

new_spot(price, meta) ==
    IF price = Zero THEN PriceSpot(price, meta)
    ELSE PriceSpot(round_price(price, SpotMaxDecimals, get_sz_decimals(meta)),
                   meta)

\* A constructor that stores the raw price.
new_perp_unrounded(price, meta) == PricePerp(price, meta)

new_perp(price, meta) ==
    IF price = Zero THEN PricePerp(price, meta)
    ELSE PricePerp(round_price(price, PerpMaxDecimals, get_sz_decimals(meta)),
                   meta)

from_meta(price, meta) ==
    IF is_spot(meta) THEN new_spot(price, meta) ELSE new_perp(price, meta)

get_value(self) == IF self.tag = "None" THEN Zero ELSE self.price

MaxDecimalsOf(self) ==
    IF self.tag = "Spot" THEN SpotMaxDecimals ELSE PerpMaxDecimals

update_price_panics(self, new_price) ==
    /\ self.tag # "None"
    /\ round_price_panics(new_price, MaxDecimalsOf(self),
                          get_sz_decimals(self.meta))

\* An update that always keeps max_decimals - sz_decimals places.
update_price_cap_only(self, new_price) ==
    IF self.tag = "None" THEN self
    ELSE [self EXCEPT !.price =
              FormatParse(new_price,
                          max_decimal_places(MaxDecimalsOf(self),
                                             get_sz_decimals(self.meta)))]

\* An update that rebuilds the value from default metadata.
update_price_rebuilding(self, new_price) ==
    IF self.tag = "None" THEN self
    ELSE PricePerp(round_price(new_price, MaxDecimalsOf(self),
                               get_sz_decimals(self.meta)),
                   MetaPerp("", get_sz_decimals(self.meta), 0))

\* An earlier revision of the type (src/types.rs) stored the raw price.
update_price_unrounded(self, new_price) ==
    IF self.tag = "None" THEN self ELSE [self EXCEPT !.price = new_price]

update_price(self, new_price) ==
    IF self.tag = "None" THEN self
    ELSE [self EXCEPT !.price =
              round_price(new_price, MaxDecimalsOf(self),
                          get_sz_decimals(self.meta))]

\* assert!(meta.is_spot()) dropped.
new_spot_unasserted(price, meta) ==
    /\ price # Zero
    /\ round_price_panics(price, SpotMaxDecimals, get_sz_decimals(meta))

\* new_spot panics: the assertion fails, or the rounding overflows.
new_spot_panics(price, meta) ==
    \/ ~is_spot(meta)
    \/ /\ price # Zero
       /\ round_price_panics(price, SpotMaxDecimals, get_sz_decimals(meta))

new_perp_panics(price, meta) ==
    \/ ~is_perp(meta)
    \/ /\ price # Zero
       /\ round_price_panics(price, PerpMaxDecimals, get_sz_decimals(meta))

from_meta_panics(price, meta) ==
    IF is_spot(meta) THEN new_spot_panics(price, meta)
    ELSE new_perp_panics(price, meta)

from_new_price_panics(self, new_price) ==
    CASE self.tag = "Spot" -> new_spot_panics(new_price, self.meta)
      [] self.tag = "Perp" -> new_perp_panics(new_price, self.meta)
      [] OTHER -> FALSE

from_new_price(self, new_price) ==
    CASE self.tag = "Spot" -> new_spot(new_price, self.meta)
      [] self.tag = "Perp" -> new_perp(new_price, self.meta)
      [] OTHER -> PriceNone

\* price * (1.0 + slippage) or price * (1.0 - slippage), for a slippage
\* given in tenths.
after_slippage(price, slippage, is_buy) ==
    LET t    == 10 * slippage.ip + FracPrefix(slippage.fr, 1)
        f    == IF is_buy THEN 10 + t ELSE 10 - t
        L    == Len(price.fr)
        n    == price.ip * Pow10(L) + FracPrefix(price.fr, L)
        prod == n * f
    IN  Dec(prod \div Pow10(L + 1), FracDigits(prod % Pow10(L + 1), L + 1))

get_value_after_slippage_panics(self, slippage, is_buy) ==
    /\ self.tag # "None"
    /\ round_price_panics(after_slippage(get_value(self), slippage, is_buy),
                          MaxDecimalsOf(self), get_sz_decimals(self.meta))

get_value_after_slippage(self, slippage, is_buy) ==
    IF self.tag = "None" THEN Zero
    ELSE round_price(after_slippage(get_value(self), slippage, is_buy),
                     MaxDecimalsOf(self), get_sz_decimals(self.meta))

get_true_price_for_asset_panics(self, price) ==
    /\ self.tag # "None"
    /\ round_price_panics(price, MaxDecimalsOf(self),
                          get_sz_decimals(self.meta))

\* A rounding helper that hands the price back when it has no metadata.
get_true_price_for_asset_passthrough(self, price) ==
    IF self.tag = "None" THEN price
    ELSE round_price(price, MaxDecimalsOf(self), get_sz_decimals(self.meta))

get_true_price_for_asset(self, price) ==
    IF self.tag = "None" THEN Zero
    ELSE round_price(price, MaxDecimalsOf(self), get_sz_decimals(self.meta))

(***************************************************************************)
(* Feed messages (hyperliquid_rust_sdk::Message) as the tasks receive      *)
(* them.  A mid price is a string: numeric (`ok`, with its value) or not.  *)
(***************************************************************************)
RawNum(d) == [ok |-> TRUE, val |-> d]
RawJunk == [ok |-> FALSE, val |-> Zero]

RawMids == {RawJunk,
            RawNum(Dec(103020, <<3, 2, 3, 2, 3>>)),
            RawNum(Dec(1, <<2, 3, 4, 5, 6, 7>>))}

\* A key of the all-mids feed that the pipeline's catalog does not list.
ForeignKey == "HYPE"

Extend(f, k, v) == [x \in DOMAIN f \cup {k} |-> IF x = k THEN v ELSE f[x]]

MidsMaps(p) ==
    LET core == UNION {[S -> RawMids] : S \in SUBSET DOMAIN Catalog(p)}
    IN  core \cup
        {Extend(m, ForeignKey, RawNum(Dec(1, <<2, 3, 4, 5, 6, 7>>))) :
            m \in core}

Msg(kind, data) == [kind |-> kind, data |-> data]
RecvNone == Msg("None", EmptyMap)

PriceFeed(p) ==
    {Msg("AllMids", m) : m \in MidsMaps(p)}
        \cup {Msg("NoData", EmptyMap), Msg("HyperliquidError", EmptyMap),
              Msg("Other", EmptyMap)}

\* v.parse::<f64>().unwrap_or(0.0)
parse_or_zero(raw) == IF raw.ok THEN raw.val ELSE Zero

Ok(v) == [ok |-> TRUE, val |-> v]
Err == [ok |-> FALSE, val |-> EmptyMap]

\* A classifier that absorbs NoData as an empty batch.
get_all_prices_nodata_empty(msg) ==
    CASE msg.kind = "HyperliquidError" -> Err
      [] msg.kind = "AllMids" ->
            Ok([k \in DOMAIN msg.data |-> parse_or_zero(msg.data[k])])
      [] OTHER -> Ok(EmptyMap)

\* A classifier that fails on an unrecognized message.
get_all_prices_other_err(msg) ==
    CASE msg.kind \in {"NoData", "HyperliquidError", "Other"} -> Err
      [] msg.kind = "AllMids" ->
            Ok([k \in DOMAIN msg.data |-> parse_or_zero(msg.data[k])])
      [] OTHER -> Ok(EmptyMap)

\* Prices::get_all_prices, applied to the outcome of price_receiver.recv().
get_all_prices(msg) ==
    CASE msg.kind = "None" -> Ok(EmptyMap)
      [] msg.kind = "NoData" -> Err
      [] msg.kind = "HyperliquidError" -> Err
      [] msg.kind = "AllMids" ->
            Ok([k \in DOMAIN msg.data |-> parse_or_zero(msg.data[k])])
      [] OTHER -> Ok(EmptyMap)

\* PerpsMeta::get_perps_prices_data / SpotMeta::get_spot_price_data: the
\* catalog joined with the first batch; an instrument without a price in
\* the batch is seeded with 0.0.
get_price_data(p, prices) ==
    [k \in DOMAIN Catalog(p) |->
        from_meta(IF k \in DOMAIN prices THEN prices[k] ELSE Zero,
                  Catalog(p)[k])]

\* The keys PerpsPriceData::update / SpotPriceData::update touches.
update_keys(tbl, prices) == DOMAIN prices \cap DOMAIN tbl

(***************************************************************************)
(* Orderbook (src/types/orderbook.rs) and its feed.                        *)
(***************************************************************************)
Coin == "ETH"

RawLevel(px, sz) == [px |-> px, sz |-> sz]

Bid1 == RawLevel(RawNum(Dec(100, <<>>)), RawNum(Dec(1, <<>>)))
Bid2 == RawLevel(RawNum(Dec(99, <<5>>)), RawNum(Dec(2, <<>>)))
Ask1 == RawLevel(RawNum(Dec(100, <<5>>)), RawNum(Dec(3, <<>>)))
Ask2 == RawLevel(RawNum(Dec(101, <<>>)), RawNum(Dec(4, <<>>)))
BadPx == RawLevel(RawJunk, RawNum(Dec(3, <<>>)))
BadSz == RawLevel(RawNum(Dec(102, <<>>)), RawJunk)

\* The two sides of an L2Book message: levels[0] and levels[1].
BidSides == {<<>>, <<Bid1>>, <<Bid1, Bid2>>, <<Bid1, BadPx, Bid2>>,
             <<BadSz, Bid1>>, <<Bid2, Bid1>>}
AskSides == {<<>>, <<Ask1>>, <<Ask1, Ask2>>, <<BadSz, Ask1, Ask2>>, <<BadPx>>,
             <<Ask2, Ask1>>}

BookData == [bids : BidSides, asks : AskSides]

BookFeed ==
    {Msg("L2Book", d) : d \in BookData}
        \cup {Msg("NoData", EmptyMap), Msg("HyperliquidError", EmptyMap),
              Msg("Other", EmptyMap)}

\* levels.iter().filter_map(|l| Some((l.px.parse().ok()?, l.sz.parse().ok()?)))
\* A parse that puts 0.0 in place of a string it cannot read.
RECURSIVE parse_levels_defaulting(_)
parse_levels_defaulting(levels) ==
    IF levels = <<>> THEN <<>>
    ELSE LET l == Head(levels)
         IN  <<<<parse_or_zero(l.px), parse_or_zero(l.sz)>>>>
                 \o parse_levels_defaulting(Tail(levels))

\* A parse that collects the levels last to first.
RECURSIVE parse_levels_reversed(_)
parse_levels_reversed(levels) ==
    IF levels = <<>> THEN <<>>
    ELSE LET l == Head(levels)
         IN  IF l.px.ok /\ l.sz.ok
             THEN parse_levels_reversed(Tail(levels))
                      \o <<<<l.px.val, l.sz.val>>>>
             ELSE parse_levels_reversed(Tail(levels))

RECURSIVE parse_levels(_)
parse_levels(levels) ==
    IF levels = <<>> THEN <<>>
    ELSE LET l == Head(levels)
         IN  IF l.px.ok /\ l.sz.ok
             THEN <<<<l.px.val, l.sz.val>>>> \o parse_levels(Tail(levels))
             ELSE parse_levels(Tail(levels))

OrderbookLevel(price, size) == [price |-> price, size |-> size]

Orderbook_new(coin) == [bids |-> <<>>, asks |-> <<>>, coin |-> coin]

\* An update that patches the book: new levels are added to the old ones.
update_from_stream_appending(self, bids, asks) ==
    [self EXCEPT
        !.bids = @ \o [j \in 1..Len(bids) |->
                          OrderbookLevel(bids[j][1], bids[j][2])],
        !.asks = @ \o [j \in 1..Len(asks) |->
                          OrderbookLevel(asks[j][1], asks[j][2])]]

update_from_stream(self, bids, asks) ==
    [self EXCEPT
        !.bids = [j \in 1..Len(bids) |-> OrderbookLevel(bids[j][1], bids[j][2])],
        !.asks = [j \in 1..Len(asks) |-> OrderbookLevel(asks[j][1], asks[j][2])]]

\* Option<&OrderbookLevel>
NoLevel == [some |-> FALSE]
SomeLevel(l) == [some |-> TRUE, level |-> l]

\* self.bids.first()
best_bid(self) ==
    IF self.bids = <<>> THEN NoLevel ELSE SomeLevel(self.bids[1])

\* self.asks.first()
best_ask(self) ==
    IF self.asks = <<>> THEN NoLevel ELSE SomeLevel(self.asks[1])

(***************************************************************************)
(* The tasks.                                                              *)
(***************************************************************************)
Set(f, p, v) == [f EXCEPT ![p] = v]

ErrResults == {"err_new", "err_meta", "err_feed", "err_send"}

\* What the task hands to sender.send: the cloned table, or the map that
\* holds the coin's orderbook.
Published(p) == IF p = "book" THEN [c \in {Coin} |-> table[p]] ELSE table[p]

\* A reader handed the task's live table instead of the channel's value.
BorrowLiveTable(p) == Published(p)

\* receiver.borrow().clone()
Borrow(p) == chan[p]

\* A loop that makes one pass too many.
LoopCondInclusive(n) == n <= TickBound

\* while i < 100_000
LoopCond(n) == n < TickBound

\* What recv() can return: a message of the feed, or None once the sender
\* side of the mpsc channel is gone.
Recv(p) ==
    IF closed[p] THEN {RecvNone}
    ELSE (IF p = "book" THEN BookFeed ELSE PriceFeed(p)) \cup {RecvNone}

\* No borrow() since the last publish.
NoRead == [val |-> EmptyMap, fresh |-> FALSE]

\* consumed counts the price batches and book snapshots taken from the feed.
Counted(m) == IF m.kind \in {"AllMids", "L2Book"} THEN 1 ELSE 0

\* An executor with a worker thread for every task spawned on it.
ThreadPerTask == Cardinality(Pipes)

\* No task spawned yet.
PipesIdle ==
    /\ pc = [p \in Pipes |-> "idle"]
    /\ sub = [p \in Pipes |-> "none"]
    /\ closed = [p \in Pipes |-> FALSE]
    /\ i = [p \in Pipes |-> 0]
    /\ table = [p \in Pipes |-> EmptyMap]
    /\ batch = [p \in Pipes |-> EmptyMap]
    /\ pending = [p \in Pipes |-> {}]
    /\ chan = [p \in Pipes |-> EmptyMap]
    /\ receivers = [p \in Pipes |-> 0]
    /\ result = [p \in Pipes |-> "none"]
    /\ lastMsg = [p \in Pipes |-> "none"]
    /\ lastPub = [p \in Pipes |-> EmptyMap]
    /\ lastRead = [p \in Pipes |-> NoRead]
    /\ consumed = [p \in Pipes |-> 0]
    /\ sends = [p \in Pipes |-> 0]
    /\ unsubs = [p \in Pipes |-> 0]

\* No Price operation called yet.
NoCall == [op |-> "none"]

PriceIdle ==
    /\ val = PriceNone
    /\ prev = PriceNone
    /\ call = NoCall
    /\ ret = Zero
    /\ crashed = FALSE

Init ==
    /\ build \in {"debug", "release"}
    /\ task \in Pipes
    /\ workers = ThreadPerTask
    /\ PipesIdle
    /\ PriceIdle

\* start_perps_sender_task / start_spot_sender_task /
\* start_orderbook_stream_task: the watch channel is created holding an
\* empty map, the supervisor is spawned and the receiver returned.
start_sender_task(p) ==
    /\ pc[p] = "idle"
    /\ pc' = Set(pc, p, "new")
    /\ chan' = Set(chan, p, EmptyMap)
    /\ receivers' = Set(receivers, p, 1)
    /\ UNCHANGED <<pvars, build, task, workers, sub, closed, i, table, batch, pending, result,
                   lastMsg, lastPub, lastRead, consumed, sends, unsubs>>

\* The program starts one of the three tasks.
Spawn(p) == p = task /\ start_sender_task(p)

\* InfoClient::new(..).await: Prices::new unwraps the result, and
\* start_orderbook_stream_task unwraps the result of OrderbookStream::new.
Connect(p) ==
    /\ pc[p] = "new"
    /\ \E ok \in BOOLEAN :
          pc' = Set(pc, p, IF ok THEN "subscribe" ELSE "panicked")
    /\ UNCHANGED <<pvars, build, task, workers, sub, closed, i, table, batch, pending, chan,
                   receivers, result, lastMsg, lastPub, lastRead, consumed,
                   sends, unsubs>>

\* info_client.subscribe(..).await on a fresh unbounded channel.
Subscribe(p) ==
    /\ pc[p] = "subscribe"
    /\ \E ok \in BOOLEAN :
          IF ok
          THEN /\ sub' = Set(sub, p, "live")
               /\ closed' = Set(closed, p, FALSE)
               /\ consumed' = Set(consumed, p, 0)
               /\ sends' = Set(sends, p, 0)
               /\ unsubs' = Set(unsubs, p, 0)
               /\ lastMsg' = Set(lastMsg, p, "none")
               /\ IF p = "book"
                  THEN /\ pc' = Set(pc, p, "tick")
                       /\ table' = Set(table, p, Orderbook_new(Coin))
                       /\ i' = Set(i, p, 0)
                       /\ result' = Set(result, p, "running")
                  ELSE /\ pc' = Set(pc, p, "client")
                       /\ UNCHANGED <<table, i, result>>
          ELSE /\ IF p = "book"
                  THEN pc' = Set(pc, p, "panicked") /\ UNCHANGED result
                  ELSE /\ pc' = Set(pc, p, "backoff")
                       /\ result' = Set(result, p, "err_new")
               /\ UNCHANGED <<sub, closed, consumed, sends, unsubs, lastMsg,
                              table, i>>
    /\ UNCHANGED <<pvars, build, task, workers, batch, pending, chan, receivers, lastPub,
                   lastRead>>

\* reqwest::ClientBuilder::new().default_headers(..).build()?
BuildClient(p) ==
    /\ p \in PricePipes
    /\ pc[p] = "client"
    /\ \E ok \in BOOLEAN :
          IF ok
          THEN pc' = Set(pc, p, "meta") /\ result' = Set(result, p, "running")
          ELSE pc' = Set(pc, p, "backoff") /\ result' = Set(result, p, "err_new")
    /\ UNCHANGED <<pvars, build, task, workers, sub, closed, i, table, batch, pending, chan,
                   receivers, lastMsg, lastPub, lastRead, consumed, sends,
                   unsubs>>

\* get_all_perps_meta / get_all_spot_meta, the receiver of the call in
\* get_perps_price_data / get_spot_price_data.
FetchMeta(p) ==
    /\ p \in PricePipes
    /\ pc[p] = "meta"
    /\ \E ok \in BOOLEAN :
          IF ok
          THEN pc' = Set(pc, p, "seed") /\ UNCHANGED result
          ELSE pc' = Set(pc, p, "unsub") /\ result' = Set(result, p, "err_meta")
    /\ UNCHANGED <<pvars, build, task, workers, sub, closed, i, table, batch, pending, chan,
                   receivers, lastMsg, lastPub, lastRead, consumed, sends,
                   unsubs>>

\* A seeding that publishes the initial table as soon as it is built.
SeedPublishing(p) ==
    /\ p \in PricePipes
    /\ pc[p] = "seed"
    /\ \E m \in Recv(p) :
          LET r == get_all_prices(m)
          IN  /\ lastMsg' = Set(lastMsg, p, m.kind)
              /\ consumed' = Set(consumed, p, consumed[p] + Counted(m))
              /\ closed' = Set(closed, p, m.kind = "None")
              /\ IF r.ok
                 THEN /\ table' = Set(table, p, get_price_data(p, r.val))
                      /\ chan' = Set(chan, p, get_price_data(p, r.val))
                      /\ sends' = Set(sends, p, 1)
                      /\ i' = Set(i, p, 0)
                      /\ pc' = Set(pc, p, "tick")
                      /\ UNCHANGED result
                 ELSE /\ pc' = Set(pc, p, "unsub")
                      /\ result' = Set(result, p, "err_feed")
                      /\ UNCHANGED <<table, i, chan, sends>>
    /\ UNCHANGED <<pvars, build, task, workers, sub, batch, pending,
                   receivers, lastPub, lastRead, unsubs>>

\* The argument of get_perps_prices_data: one get_all_prices, joined with
\* the catalog into the initial table; then `let mut i = 0`.
Seed(p) ==
    /\ p \in PricePipes
    /\ pc[p] = "seed"
    /\ \E m \in Recv(p) :
          LET r == get_all_prices(m)
          IN  /\ lastMsg' = Set(lastMsg, p, m.kind)
              /\ consumed' = Set(consumed, p, consumed[p] + Counted(m))
              /\ closed' = Set(closed, p, m.kind = "None")
              /\ IF r.ok
                 THEN /\ table' = Set(table, p, get_price_data(p, r.val))
                      /\ i' = Set(i, p, 0)
                      /\ pc' = Set(pc, p, "tick")
                      /\ UNCHANGED result
                 ELSE /\ pc' = Set(pc, p, "unsub")
                      /\ result' = Set(result, p, "err_feed")
                      /\ UNCHANGED <<table, i>>
    /\ UNCHANGED <<pvars, build, task, workers, sub, batch, pending, chan, receivers, lastPub,
                   lastRead, sends, unsubs>>

\* The loop condition fails: start_sending returns Ok(()).
LoopExit(p) ==
    /\ pc[p] = "tick"
    /\ ~LoopCond(i[p])
    /\ pc' = Set(pc, p, "unsub")
    /\ result' = Set(result, p, "ok")
    /\ UNCHANGED <<pvars, build, task, workers, sub, closed, i, table, batch, pending, chan,
                   receivers, lastMsg, lastPub, lastRead, consumed, sends,
                   unsubs>>

\* One pass of the price loop up to the table update:
\* self.get_all_prices().await? handed to update().
Tick(p) ==
    /\ p \in PricePipes
    /\ pc[p] = "tick"
    /\ LoopCond(i[p])
    /\ \E m \in Recv(p) :
          LET r == get_all_prices(m)
          IN  /\ lastMsg' = Set(lastMsg, p, m.kind)
              /\ consumed' = Set(consumed, p, consumed[p] + Counted(m))
              /\ closed' = Set(closed, p, m.kind = "None")
              /\ IF r.ok
                 THEN /\ batch' = Set(batch, p, r.val)
                      /\ pending' = Set(pending, p, update_keys(table[p], r.val))
                      /\ pc' = Set(pc, p, IF update_keys(table[p], r.val) = {}
                                          THEN "send" ELSE "update")
                      /\ UNCHANGED result
                 ELSE /\ pc' = Set(pc, p, "unsub")
                      /\ result' = Set(result, p, "err_feed")
                      /\ UNCHANGED <<batch, pending>>
    /\ UNCHANGED <<pvars, build, task, workers, sub, i, table, chan, receivers, lastPub,
                   lastRead, sends, unsubs>>

\* An update that hands the table to the publish after its first entry.
UpdateEntryPublishingEarly(p, k) ==
    /\ p \in PricePipes
    /\ pc[p] = "update"
    /\ k \in pending[p]
    /\ IF update_price_panics(table[p][k], batch[p][k])
       THEN /\ pc' = Set(pc, p, "panicked")
            /\ UNCHANGED <<table, pending>>
       ELSE /\ table' = Set(table, p,
                   [table[p] EXCEPT ![k] = update_price(@, batch[p][k])])
            /\ pending' = Set(pending, p, pending[p] \ {k})
            /\ pc' = Set(pc, p, "send")
    /\ UNCHANGED <<pvars, build, task, workers, sub, closed, i, batch, chan,
                   receivers, result, lastMsg, lastPub, lastRead, consumed,
                   sends, unsubs>>

\* update(): one entry of the table takes its new price through update_price.
UpdateEntry(p, k) ==
    /\ p \in PricePipes
    /\ pc[p] = "update"
    /\ k \in pending[p]
    /\ IF update_price_panics(table[p][k], batch[p][k])
       THEN /\ pc' = Set(pc, p, "panicked")
            /\ UNCHANGED <<table, pending>>
       ELSE /\ table' = Set(table, p,
                   [table[p] EXCEPT ![k] = update_price(@, batch[p][k])])
            /\ pending' = Set(pending, p, pending[p] \ {k})
            /\ pc' = Set(pc, p, IF pending[p] = {k} THEN "send" ELSE "update")
    /\ UNCHANGED <<pvars, build, task, workers, sub, closed, i, batch, chan, receivers, result,
                   lastMsg, lastPub, lastRead, consumed, sends, unsubs>>

\* An orderbook loop that returns an error on a protocol-error message, as
\* the price classifier does.
BookTickErrEnds(p) ==
    /\ p = "book"
    /\ pc[p] = "tick"
    /\ LoopCond(i[p])
    /\ \E m \in Recv(p) :
          /\ lastMsg' = Set(lastMsg, p, m.kind)
          /\ consumed' = Set(consumed, p, consumed[p] + Counted(m))
          /\ closed' = Set(closed, p, m.kind = "None")
          /\ batch' = Set(batch, p, IF m.kind = "L2Book" THEN m.data
                                    ELSE batch[p])
          /\ CASE m.kind = "L2Book" ->
                    /\ table' = Set(table, p,
                           update_from_stream(table[p],
                                              parse_levels(m.data.bids),
                                              parse_levels(m.data.asks)))
                    /\ pc' = Set(pc, p, "send")
                    /\ UNCHANGED result
               [] m.kind = "None" ->
                    /\ pc' = Set(pc, p, "unsub")
                    /\ result' = Set(result, p, "ok")
                    /\ UNCHANGED table
               [] m.kind = "HyperliquidError" ->
                    /\ pc' = Set(pc, p, "unsub")
                    /\ result' = Set(result, p, "err_feed")
                    /\ UNCHANGED table
               [] OTHER ->
                    /\ pc' = Set(pc, p, "sleep")
                    /\ UNCHANGED <<table, result>>
    /\ UNCHANGED <<pvars, build, task, workers, sub, i, pending, chan, receivers,
                   lastPub, lastRead, sends, unsubs>>

\* An orderbook loop that sends its map again after a message that is not
\* a snapshot.
BookTickRepublishing(p) ==
    /\ p = "book"
    /\ pc[p] = "tick"
    /\ LoopCond(i[p])
    /\ \E m \in Recv(p) :
          /\ lastMsg' = Set(lastMsg, p, m.kind)
          /\ consumed' = Set(consumed, p, consumed[p] + Counted(m))
          /\ closed' = Set(closed, p, m.kind = "None")
          /\ batch' = Set(batch, p, IF m.kind = "L2Book" THEN m.data
                                    ELSE batch[p])
          /\ CASE m.kind = "L2Book" ->
                    /\ table' = Set(table, p,
                           update_from_stream(table[p],
                                              parse_levels(m.data.bids),
                                              parse_levels(m.data.asks)))
                    /\ pc' = Set(pc, p, "send")
                    /\ UNCHANGED result
               [] m.kind = "None" ->
                    /\ pc' = Set(pc, p, "unsub")
                    /\ result' = Set(result, p, "ok")
                    /\ UNCHANGED table
               [] OTHER ->
                    /\ pc' = Set(pc, p, "send")
                    /\ UNCHANGED <<table, result>>
    /\ UNCHANGED <<pvars, build, task, workers, sub, i, pending, chan, receivers,
                   lastPub, lastRead, sends, unsubs>>

\* One pass of the orderbook loop up to the publish or the pause.
BookTick(p) ==
    /\ p = "book"
    /\ pc[p] = "tick"
    /\ LoopCond(i[p])
    /\ \E m \in Recv(p) :
          /\ lastMsg' = Set(lastMsg, p, m.kind)
          /\ consumed' = Set(consumed, p, consumed[p] + Counted(m))
          /\ closed' = Set(closed, p, m.kind = "None")
          /\ batch' = Set(batch, p, IF m.kind = "L2Book" THEN m.data
                                    ELSE batch[p])
          /\ CASE m.kind = "L2Book" ->
                    /\ table' = Set(table, p,
                           update_from_stream(table[p],
                                              parse_levels(m.data.bids),
                                              parse_levels(m.data.asks)))
                    /\ pc' = Set(pc, p, "send")
                    /\ UNCHANGED result
               [] m.kind = "None" ->
                    /\ pc' = Set(pc, p, "unsub")
                    /\ result' = Set(result, p, "ok")
                    /\ UNCHANGED table
               [] OTHER ->
                    /\ pc' = Set(pc, p, "sleep")
                    /\ UNCHANGED <<table, result>>
    /\ UNCHANGED <<pvars, build, task, workers, sub, i, pending, chan, receivers,
                   lastPub, lastRead, sends, unsubs>>

\* A publish whose error is dropped (`let _ = sender.send(map)`).
SendIgnoringError(p) ==
    /\ pc[p] = "send"
    /\ IF receivers[p] > 0
       THEN /\ chan' = Set(chan, p, Published(p))
            /\ lastPub' = Set(lastPub, p, Published(p))
            /\ lastRead' = Set(lastRead, p, NoRead)
            /\ sends' = Set(sends, p, sends[p] + 1)
       ELSE UNCHANGED <<chan, lastPub, lastRead, sends>>
    /\ pc' = Set(pc, p, "sleep")
    /\ batch' = Set(batch, p, EmptyMap)
    /\ UNCHANGED <<pvars, build, task, workers, sub, closed, i, table, pending, receivers,
                   result, lastMsg, consumed, unsubs>>

\* A publish into one channel that both price pipelines share.
SendToSharedChannel(p) ==
    /\ pc[p] = "send"
    /\ IF receivers[p] > 0
       THEN /\ chan' = [q \in Pipes |->
                          IF (q \in PricePipes /\ p \in PricePipes)
                                 \/ q = p
                          THEN Published(p) ELSE chan[q]]
            /\ lastPub' = Set(lastPub, p, Published(p))
            /\ lastRead' = Set(lastRead, p, NoRead)
            /\ sends' = Set(sends, p, sends[p] + 1)
            /\ pc' = Set(pc, p, "sleep")
            /\ UNCHANGED result
       ELSE /\ pc' = Set(pc, p, "unsub")
            /\ result' = Set(result, p, "err_send")
            /\ UNCHANGED <<chan, lastPub, lastRead, sends>>
    /\ batch' = Set(batch, p, EmptyMap)
    /\ UNCHANGED <<pvars, build, task, workers, sub, closed, i, table, pending, receivers,
                   lastMsg, consumed, unsubs>>

\* sender.send(map)?: the watch channel takes the whole value when a
\* receiver is alive, and returns an error and keeps its value otherwise.
Send(p) ==
    /\ pc[p] = "send"
    /\ IF receivers[p] > 0
       THEN /\ chan' = Set(chan, p, Published(p))
            /\ lastPub' = Set(lastPub, p, Published(p))
            /\ lastRead' = Set(lastRead, p, NoRead)
            /\ sends' = Set(sends, p, sends[p] + 1)
            /\ pc' = Set(pc, p, "sleep")
            /\ UNCHANGED result
       ELSE /\ pc' = Set(pc, p, "unsub")
            /\ result' = Set(result, p, "err_send")
            /\ UNCHANGED <<chan, lastPub, lastRead, sends>>
    /\ batch' = Set(batch, p, EmptyMap)
    /\ UNCHANGED <<pvars, build, task, workers, sub, closed, i, table, pending, receivers,
                   lastMsg, consumed, unsubs>>

\* A pause after which the pass is not counted.
SleepWithoutCount(p) ==
    /\ pc[p] = "sleep"
    /\ pc' = Set(pc, p, "tick")
    /\ lastMsg' = Set(lastMsg, p, "none")
    /\ UNCHANGED <<pvars, build, task, workers, sub, closed, i, table, batch,
                   pending, chan, receivers, result, lastPub, lastRead,
                   consumed, sends, unsubs>>

\* sleep(800 ms); i += 1
Sleep(p) ==
    /\ pc[p] = "sleep"
    /\ i' = Set(i, p, i[p] + 1)
    /\ pc' = Set(pc, p, "tick")
    /\ lastMsg' = Set(lastMsg, p, "none")
    /\ UNCHANGED <<pvars, build, task, workers, sub, closed, table, batch, pending, chan,
                   receivers, result, lastPub, lastRead, consumed, sends,
                   unsubs>>

\* let _ = new_prices.unsub().await: the outcome is dropped.
Unsub(p) ==
    /\ pc[p] = "unsub"
    /\ \E ok \in BOOLEAN : sub' = Set(sub, p, IF ok THEN "ended" ELSE sub[p])
    /\ unsubs' = Set(unsubs, p, unsubs[p] + 1)
    /\ pc' = Set(pc, p, "backoff")
    /\ lastMsg' = Set(lastMsg, p, "none")
    /\ UNCHANGED <<pvars, build, task, workers, closed, i, table, batch, pending, chan,
                   receivers, result, lastPub, lastRead, consumed, sends>>

\* A supervisor that creates the watch channel anew on every pass.
BackoffClearsChannel(p) ==
    /\ pc[p] = "backoff"
    /\ pc' = Set(pc, p, "new")
    /\ chan' = Set(chan, p, EmptyMap)
    /\ UNCHANGED <<pvars, build, task, workers, sub, closed, i, table, batch, pending,
                   receivers, result, lastMsg, lastPub, lastRead, consumed,
                   sends, unsubs>>

\* sleep(5 s), then the next pass of the supervisor loop.
Backoff(p) ==
    /\ pc[p] = "backoff"
    /\ pc' = Set(pc, p, "new")
    /\ UNCHANGED <<pvars, build, task, workers, sub, closed, i, table, batch, pending, chan,
                   receivers, result, lastMsg, lastPub, lastRead, consumed,
                   sends, unsubs>>

(***************************************************************************)
(* Consumers of a watch channel.                                           *)
(***************************************************************************)
Read(p) ==
    /\ receivers[p] > 0
    /\ lastRead' = Set(lastRead, p, [val |-> Borrow(p), fresh |-> TRUE])
    /\ UNCHANGED <<pvars, build, task, workers, pc, sub, closed, i, table, batch, pending,
                   chan, receivers, result, lastMsg, lastPub, consumed, sends,
                   unsubs>>

CloneReceiver(p) ==
    /\ receivers[p] > 0
    /\ receivers[p] < MaxReceivers
    /\ receivers' = Set(receivers, p, receivers[p] + 1)
    /\ UNCHANGED <<pvars, build, task, workers, pc, sub, closed, i, table, batch, pending,
                   chan, result, lastMsg, lastPub, lastRead, consumed, sends,
                   unsubs>>

DropReceiver(p) ==
    /\ receivers[p] > 0
    /\ receivers' = Set(receivers, p, receivers[p] - 1)
    /\ UNCHANGED <<pvars, build, task, workers, pc, sub, closed, i, table, batch, pending,
                   chan, result, lastMsg, lastPub, lastRead, consumed, sends,
                   unsubs>>

(***************************************************************************)
(* A caller of the Price operations: it builds a Price, updates it and     *)
(* reads it, with arguments drawn from the sets below.                     *)
(***************************************************************************)
\* Raw prices: zero, the price of the round_price_example binary, prices
\* whose rounding carries, prices above and below the 5-digit window.
RawPrices ==
    {Zero,
     Dec(103020, <<3, 2, 3, 2, 3>>),
     Dec(123456, <<7>>),
     Dec(99999, <<6>>),
     Dec(9, <<9, 9, 9, 9, 6>>),
     Dec(1, <<2, 3, 4, 5, 6, 7>>),
     Dec(2, <<5>>),
     Dec(0, <<0, 4>>),
     Dec(0, <<0, 0, 0, 1, 2, 3, 4, 5, 6>>),
     Dec(0, <<0, 0, 0, 0, 0, 0, 0, 0, 4>>)}

\* Metadata of the listed instruments.
Metas ==
    {PerpCatalog[k] : k \in DOMAIN PerpCatalog}
        \cup {SpotCatalog[k] : k \in DOMAIN SpotCatalog}

\* The (max_decimals, sz_decimals) pairs round_price is called with.
DecimalCaps ==
    {<<c, sz>> \in {PerpMaxDecimals, SpotMaxDecimals} \X {0, 2, 4, 5, 6} :
        c >= sz}

Slippages == {Dec(0, <<5>>), Dec(0, <<1>>)}

PipesFrame ==
    UNCHANGED <<build, task, workers, pc, sub, closed, i, table, batch, pending, chan,
                receivers, result, lastMsg, lastPub, lastRead, consumed,
                sends, unsubs>>

\* A call that builds or replaces the value: it panics, or yields v; old
\* is the value the call was made on.
Construct(c, old, panics, v) ==
    /\ ~crashed
    /\ call' = c
    /\ crashed' = panics
    /\ prev' = old
    /\ val' = IF panics THEN val ELSE v
    /\ ret' = Zero
    /\ PipesFrame

\* A call that returns an f64: it panics, or returns r.
Compute(c, panics, r) ==
    /\ ~crashed
    /\ call' = c
    /\ crashed' = panics
    /\ ret' = IF panics THEN Zero ELSE r
    /\ prev' = val
    /\ UNCHANGED val
    /\ PipesFrame

CallNewSpot ==
    \E price \in RawPrices, meta \in Metas :
        Construct([op |-> "new_spot", price |-> price, meta |-> meta],
                  PriceNone,
                  new_spot_panics(price, meta), new_spot(price, meta))

CallNewPerp ==
    \E price \in RawPrices, meta \in Metas :
        Construct([op |-> "new_perp", price |-> price, meta |-> meta],
                  PriceNone,
                  new_perp_panics(price, meta), new_perp(price, meta))

CallFromMeta ==
    \E price \in RawPrices, meta \in Metas :
        Construct([op |-> "from_meta", price |-> price, meta |-> meta],
                  PriceNone,
                  from_meta_panics(price, meta), from_meta(price, meta))

CallUpdatePrice ==
    \E price \in RawPrices :
        Construct([op |-> "update_price", price |-> price], val,
                  update_price_panics(val, price), update_price(val, price))

CallFromNewPrice ==
    \E price \in RawPrices :
        Construct([op |-> "from_new_price", price |-> price], val,
                  from_new_price_panics(val, price),
                  from_new_price(val, price))

CallGetValueAfterSlippage ==
    \E slippage \in Slippages, is_buy \in BOOLEAN :
        Compute([op |-> "get_value_after_slippage", slippage |-> slippage,
                 is_buy |-> is_buy],
                get_value_after_slippage_panics(val, slippage, is_buy),
                get_value_after_slippage(val, slippage, is_buy))

CallGetTruePriceForAsset ==
    \E price \in RawPrices :
        Compute([op |-> "get_true_price_for_asset", price |-> price],
                get_true_price_for_asset_panics(val, price),
                get_true_price_for_asset(val, price))

(***************************************************************************)
(* Sizes.  A size is an f64 that may be infinite or not a number; the      *)
(* quotient of two finite numbers is kept as a fraction until it is        *)
(* formatted.                                                              *)
(***************************************************************************)
Infinity == [special |-> "inf"]
NaN == [special |-> "NaN"]
IsFinite(x) == "special" \notin DOMAIN x

\* d as an integer number of 10^-k, for k at least the digits of d.
Scaled(d, k) == d.ip * Pow10(k) + FracPrefix(d.fr, k)

\* A division that answers 0.0 when the divisor is 0.0.
f64_div_guarded(size, price) ==
    CASE size = NaN -> NaN
      [] size = Infinity -> Infinity
      [] price = Zero -> [num |-> 0, den |-> 1]
      [] OTHER ->
            [num |-> Scaled(size, Len(size.fr)) * Pow10(Len(price.fr)),
             den |-> Scaled(price, Len(price.fr)) * Pow10(Len(size.fr))]

\* size / price in f64
f64_div(size, price) ==
    CASE size = NaN -> NaN
      [] size = Infinity -> Infinity
      [] price = Zero -> IF size = Zero THEN NaN ELSE Infinity
      [] OTHER ->
            [num |-> Scaled(size, Len(size.fr)) * Pow10(Len(price.fr)),
             den |-> Scaled(price, Len(price.fr)) * Pow10(Len(size.fr))]

\* format!("{:.*}", n, size).parse::<f64>().unwrap() of a quotient: "inf"
\* and "NaN" are printed and read back as themselves.
FormatParseSize(q, n) ==
    IF ~IsFinite(q) THEN q
    ELSE LET t == q.num * Pow10(n)
             whole == t \div q.den
             rest == t % q.den
             up == \/ 2 * rest > q.den
                   \/ 2 * rest = q.den /\ whole % 2 = 1
             r == whole + (IF up THEN 1 ELSE 0)
         IN  Dec(r \div Pow10(n), FracDigits(r % Pow10(n), n))

get_true_size(self, size) ==
    IF self.tag = "None" THEN Zero
    ELSE FormatParseSize(size, get_sz_decimals(self.meta))

get_asset_denom_size(self, size) ==
    get_true_size(self, f64_div(size, get_value(self)))

Sizes == {Zero, Dec(10, <<>>), Dec(2, <<5>>), Infinity, NaN}

CallGetValue ==
    Compute([op |-> "get_value"], FALSE, get_value(val))

\* get_true_size(size): the size goes in as the fraction it is.
CallGetTrueSize ==
    \E size \in Sizes :
        Compute([op |-> "get_true_size", size |-> size], FALSE,
                get_true_size(val, f64_div(size, Dec(1, <<>>))))

PriceInit ==
    /\ build \in {"debug", "release"}
    /\ task = "perp"
    /\ workers = ThreadPerTask
    /\ PipesIdle
    /\ PriceIdle

PriceNext ==
    \/ CallNewSpot
    \/ CallNewPerp
    \/ CallFromMeta
    \/ CallUpdatePrice
    \/ CallFromNewPrice
    \/ CallGetValueAfterSlippage
    \/ CallGetTruePriceForAsset
    \/ CallGetValue
    \/ CallGetTrueSize

PriceSpec == PriceInit /\ [][PriceNext]_vars

(***************************************************************************)
(* round_price on its own: the arguments are drawn at the start, the       *)
(* function is applied, and applied again to what it returned.             *)
(***************************************************************************)
RoundInit ==
    /\ build \in {"debug", "release"}
    /\ task = "perp"
    /\ workers = ThreadPerTask
    /\ PipesIdle
    /\ val = PriceNone
    /\ prev = PriceNone
    /\ \E price \in RawPrices, cs \in DecimalCaps :
          call = [op |-> "args", price |-> price,
                  max_decimals |-> cs[1], sz_decimals |-> cs[2]]
    /\ ret = Zero
    /\ crashed = FALSE

ApplyRoundPrice ==
    /\ call.op = "args"
    /\ Compute([call EXCEPT !.op = "round_price"],
               round_price_panics(call.price, call.max_decimals,
                                  call.sz_decimals),
               round_price(call.price, call.max_decimals, call.sz_decimals))

\* round_price applied to what round_price returned, with the same caps.
ApplyRoundAgain ==
    /\ call.op = "round_price"
    /\ Compute([call EXCEPT !.op = "round_again", !.price = ret],
               round_price_panics(ret, call.max_decimals, call.sz_decimals),
               round_price(ret, call.max_decimals, call.sz_decimals))

RoundNext == ApplyRoundPrice \/ ApplyRoundAgain

RoundSpec == RoundInit /\ [][RoundNext]_vars

\* get_asset_denom_size on its own: the value and the size are drawn at
\* the start.
SizePrices == {Zero, Dec(2, <<5>>), Dec(0, <<0, 4>>)}

SizeInit ==
    /\ build \in {"debug", "release"}
    /\ task = "perp"
    /\ workers = ThreadPerTask
    /\ PipesIdle
    /\ \/ val = PriceNone
       \/ \E price \in SizePrices, meta \in Metas :
             /\ ~from_meta_panics(price, meta)
             /\ val = from_meta(price, meta)
    /\ prev = PriceNone
    /\ \E size \in Sizes : call = [op |-> "args", size |-> size]
    /\ ret = Zero
    /\ crashed = FALSE

ApplyGetAssetDenomSize ==
    /\ call.op = "args"
    /\ Compute([call EXCEPT !.op = "get_asset_denom_size"], FALSE,
               get_asset_denom_size(val, call.size))

SizeNext == ApplyGetAssetDenomSize

SizeSpec == SizeInit /\ [][SizeNext]_vars

(***************************************************************************)
(* Construction and update over metadata as the types admit it:            *)
(* sz_decimals is any u16, and the constructors check the variant only.    *)
(***************************************************************************)
WideMetas ==
    Metas \cup
        {MetaPerp("WIDE", 7, 50),
         MetaSpot("@9", SpotAssetMeta("WIDE", 9, 18, 9),
                        SpotAssetMeta("USDC", 8, 8, 0))}

CapPrices ==
    {Dec(103020, <<3, 2, 3, 2, 3>>),
     Dec(1, <<2, 3, 4, 5, 6, 7>>),
     Dec(0, <<0, 4>>),
     Dec(0, <<0, 0, 0, 0, 1, 2, 3, 4, 5, 6>>)}

CapInit ==
    /\ build \in {"debug", "release"}
    /\ task = "perp"
    /\ workers = ThreadPerTask
    /\ PipesIdle
    /\ val = PriceNone
    /\ prev = PriceNone
    /\ \E price \in CapPrices, meta \in WideMetas :
          call = [op |-> "args", price |-> price, meta |-> meta]
    /\ ret = Zero
    /\ crashed = FALSE

ApplyFromMeta ==
    /\ call.op = "args"
    /\ Construct([call EXCEPT !.op = "from_meta"], PriceNone,
                 from_meta_panics(call.price, call.meta),
                 from_meta(call.price, call.meta))

ApplyUpdatePrice ==
    /\ call.op = "from_meta"
    /\ \E price \in CapPrices :
          Construct([op |-> "update_price", price |-> price], val,
                    update_price_panics(val, price), update_price(val, price))

CapNext == ApplyFromMeta \/ ApplyUpdatePrice

CapSpec == CapInit /\ [][CapNext]_vars

(***************************************************************************)
(* Deserialization of a snapshot payload: the spot PairPriceData, whose    *)
(* three decimal fields go through parse_string_to_float.                  *)
(***************************************************************************)
\* What a JSON object can hold under the name of a field.
JsonAbsent == [json |-> "absent"]
JsonNull == [json |-> "null"]
JsonString(raw) == [json |-> "string", raw |-> raw]
JsonNumber(d) == [json |-> "number", num |-> d]

JsonFields ==
    {JsonAbsent, JsonNull, JsonString(RawJunk),
     JsonString(RawNum(Dec(1, <<2, 3, 4, 5, 6, 7>>))),
     JsonNumber(Dec(2, <<5>>))}

\* #[serde(deserialize_with = "parse_string_to_float")] pub .._px: f64
DecimalFields == {"prevDayPx", "markPx", "midPx"}

Payloads == [DecimalFields -> JsonFields]

\* deserializer.deserialize_any(StringToFloatVisitor): visit_str parses,
\* visit_unit answers null; the visitor has no visit_f64.
parse_string_to_float(field) ==
    CASE field.json = "string" ->
            IF field.raw.ok THEN Ok(field.raw.val) ELSE Err
      [] field.json = "null" -> Ok(Zero)
      [] OTHER -> Err

\* The derived Deserialize of a field that has deserialize_with and no
\* #[serde(default)]: a name the object lacks is the error `missing field`.
deserialize_field(obj, f) ==
    IF obj[f] = JsonAbsent THEN Err ELSE parse_string_to_float(obj[f])

\* The derived Deserialize of the struct: the first failing field fails it.
deserialize_payload(obj) ==
    IF \A f \in DecimalFields : deserialize_field(obj, f).ok
    THEN Ok([f \in DecimalFields |-> deserialize_field(obj, f).val])
    ELSE Err

DeInit ==
    /\ build \in {"debug", "release"}
    /\ task = "spot"
    /\ workers = ThreadPerTask
    /\ PipesIdle
    /\ val = PriceNone
    /\ prev = PriceNone
    /\ \E obj \in Payloads : call = [op |-> "json", payload |-> obj]
    /\ ret = Zero
    /\ crashed = FALSE

ApplyDeserialize ==
    /\ call.op = "json"
    /\ Compute([call EXCEPT !.op = "deserialize"], FALSE,
               deserialize_payload(call.payload))

DeNext == ApplyDeserialize

DeSpec == DeInit /\ [][DeNext]_vars

(***************************************************************************)
(* A program that starts both price tasks: start_perps_sender_task and     *)
(* start_spot_sender_task run side by side, each fed all-mids messages     *)
(* that quote every instrument of its catalog.                             *)
(***************************************************************************)
PairMids(p) ==
    {[k \in DOMAIN Catalog(p) |-> RawNum(Dec(1, <<2, 3, 4, 5, 6, 7>>))]}

PairBatches(p) == {get_all_prices(Msg("AllMids", m)).val : m \in PairMids(p)}

\* The step took its batch from the feed of the pair program.
PairFeed(p) ==
    /\ batch'[p] \in {EmptyMap} \cup PairBatches(p)
    /\ pc[p] = "seed" /\ pc'[p] = "tick" =>
          table'[p] \in {get_price_data(p, b) : b \in PairBatches(p)}

PairInit ==
    /\ build \in {"debug", "release"}
    /\ task = "prices"
    /\ workers = ThreadPerTask
    /\ PipesIdle
    /\ PriceIdle

PairSpawn(p) == task = "prices" /\ start_sender_task(p)

PairNext ==
    \E p \in PricePipes :
        \/ PairSpawn(p)
        \/ Connect(p)
        \/ Subscribe(p)
        \/ BuildClient(p)
        \/ FetchMeta(p)
        \/ Seed(p) /\ PairFeed(p)
        \/ LoopExit(p)
        \/ Tick(p) /\ PairFeed(p)
        \/ \E k \in pending[p] : UpdateEntry(p, k)
        \/ Send(p)
        \/ Sleep(p)
        \/ Unsub(p)
        \/ Backoff(p)

PairSpec == PairInit /\ [][PairNext]_vars

(***************************************************************************)
(* The same program on an executor with a given number of worker threads.  *)
(* The pauses are std::thread::sleep: the thread that runs the pausing     *)
(* task is blocked until the pause is over, and a task or a consumer takes *)
(* a step only on a thread that is not blocked.                            *)
(***************************************************************************)
MaxWorkers == 2

\* sleep(Duration::from_millis(800)) or sleep(Duration::from_secs(5))
Pausing(p) == pc[p] \in {"sleep", "backoff"}

BlockedThreads == Cardinality({p \in PricePipes : Pausing(p)})

FreeThread == workers > BlockedThreads

\* The feed of this program holds no price that makes the two builds
\* differ, so one build stands for both.
ExecInit ==
    /\ build = "release"
    /\ task = "prices"
    /\ workers \in 1..MaxWorkers
    /\ PipesIdle
    /\ PriceIdle

\* The steps of the task of pipeline p between two pauses.
TaskStep(p) ==
    /\ FreeThread
    /\ \/ Connect(p)
       \/ Subscribe(p)
       \/ BuildClient(p)
       \/ FetchMeta(p)
       \/ Seed(p) /\ PairFeed(p)
       \/ LoopExit(p)
       \/ Tick(p) /\ PairFeed(p)
       \/ \E k \in pending[p] : UpdateEntry(p, k)
       \/ Send(p)
       \/ Unsub(p)

\* A step of the task that started the pipelines and reads their channels.
ConsumerStep(p) ==
    /\ FreeThread
    /\ \/ PairSpawn(p)
       \/ Read(p)

ExecNext ==
    \E p \in PricePipes :
        \/ TaskStep(p)
        \/ ConsumerStep(p)
        \/ Sleep(p)
        \/ Backoff(p)

ExecSpec == ExecInit /\ [][ExecNext]_vars

Next ==
    \E p \in Pipes :
        \/ Spawn(p)
        \/ Connect(p)
        \/ Subscribe(p)
        \/ BuildClient(p)
        \/ FetchMeta(p)
        \/ Seed(p)
        \/ LoopExit(p)
        \/ Tick(p)
        \/ \E k \in pending[p] : UpdateEntry(p, k)
        \/ BookTick(p)
        \/ Send(p)
        \/ Sleep(p)
        \/ Unsub(p)
        \/ Backoff(p)
        \/ Read(p)
        \/ CloneReceiver(p)
        \/ DropReceiver(p)

Spec == Init /\ [][Next]_vars

(***************************************************************************)
(* The tasks under a fair executor: a task that can take a step takes it   *)
(* (the runtime polls every spawned task that is ready, and a pause ends), *)
(* and an attempt that is made again and again - to connect, to subscribe, *)
(* to build the HTTP client - does not fail forever.                       *)
(***************************************************************************)
TaskNext(p) ==
    \/ Spawn(p)
    \/ Connect(p)
    \/ Subscribe(p)
    \/ BuildClient(p)
    \/ FetchMeta(p)
    \/ Seed(p)
    \/ LoopExit(p)
    \/ Tick(p)
    \/ \E k \in pending[p] : UpdateEntry(p, k)
    \/ BookTick(p)
    \/ Send(p)
    \/ Sleep(p)
    \/ Unsub(p)
    \/ Backoff(p)

FairNext == \E p \in Pipes : TaskNext(p)

Fairness ==
    \A p \in Pipes :
        /\ WF_vars(TaskNext(p))
        /\ SF_vars(Connect(p) /\ pc'[p] = "subscribe")
        /\ SF_vars(Subscribe(p) /\ pc'[p] \in {"client", "tick"})
        /\ SF_vars(BuildClient(p) /\ pc'[p] = "meta")

FairSpec == Init /\ [][FairNext]_vars /\ Fairness

(***************************************************************************)
(* Properties.                                                             *)
(***************************************************************************)
Moved(p) == pc'[p] # pc[p]

\* The positions of a task inside start_sending.
InIteration == {"meta", "seed", "tick", "update", "send", "sleep"}

\* C1: in each price pipeline, after an iteration has ended in an
\* unrecoverable error the supervisor goes on to a new attempt; its loop
\* never exits.
C1_SupervisorSurvivesFailure ==
    \A p \in PricePipes : result[p] \in ErrResults => pc[p] # "panicked"

\* C2: once a pipeline has published, the value of its channel is never an
\* empty table again, and it changes only by a publish, which stores the
\* task's table; so it stays the last published table through failure,
\* restart and seeding.
C2_ChannelKeepsLastTable ==
    /\ [](\A p \in Pipes : chan[p] = lastPub[p])
    /\ [][\A p \in Pipes :
            /\ lastPub[p] # EmptyMap => chan'[p] # EmptyMap
            /\ chan'[p] # chan[p] =>
                  pc[p] = "send" /\ chan'[p] = Published(p)]_vars

C2_Witness ==
    \E p \in Pipes :
        /\ pc[p] = "seed"
        /\ result[p] = "running"
        /\ sends[p] = 0
        /\ chan[p] # EmptyMap
        /\ unsubs[p] = 0

\* C3: every read of a channel returns the table handed to the most recent
\* publish, which the writer had finished updating; never the table the
\* writer is in the middle of updating.
C3_ReadsLatestFullTable ==
    \A p \in Pipes :
        /\ lastRead[p].fresh => lastRead[p].val = lastPub[p]
        /\ pc[p] = "send" => pending[p] = {}

C3_Witness ==
    \E p \in PricePipes :
        /\ pc[p] = "update"
        /\ lastRead[p].fresh
        /\ lastRead[p].val # EmptyMap
        /\ lastRead[p].val # table[p]
        /\ \E k \in DOMAIN table[p] : k \notin pending[p] /\ k \in DOMAIN batch[p]

\* The price an entry must hold once the raw price raw has been ingested.
IngestedPrice(entry, raw) ==
    round_price(raw, IF entry.tag = "Spot" THEN SpotMaxDecimals
                     ELSE PerpMaxDecimals,
                get_sz_decimals(entry.meta))

\* C4: when a price batch has been processed, every entry whose key is in
\* the batch holds the batch's price rounded for its instrument, entries
\* change only that way (variant and metadata kept, other entries and the
\* key set untouched), and the publish stores that full table.
C4_BatchUpdatesMatchingEntries ==
    /\ [](\A p \in PricePipes :
            pc[p] = "send" =>
                \A k \in DOMAIN table[p] \cap DOMAIN batch[p] :
                    table[p][k].price = IngestedPrice(table[p][k], batch[p][k]))
    /\ [][\A p \in PricePipes :
            /\ pc[p] \in {"tick", "update"} /\ pc'[p] \in {"update", "send"} =>
                  /\ DOMAIN table'[p] = DOMAIN table[p]
                  /\ \A k \in DOMAIN table[p] :
                        table'[p][k] # table[p][k] =>
                            /\ k \in DOMAIN batch'[p]
                            /\ table'[p][k] =
                                  [table[p][k] EXCEPT !.price =
                                      IngestedPrice(table[p][k], batch'[p][k])]
            /\ pc[p] = "send" /\ pc'[p] = "sleep" =>
                  chan'[p] = table[p] /\ table'[p] = table[p]]_vars

\* C4 as stated, for every batch: the batch is applied as above and the
\* task goes from the update on to the publish.
C4_BatchIsAppliedAndPublished ==
    /\ C4_BatchUpdatesMatchingEntries
    /\ [][\A p \in PricePipes :
            pc[p] = "update" => pc'[p] \in {"update", "send"}]_vars

C4_Witness ==
    \E p \in PricePipes :
        /\ pc[p] = "send"
        /\ \E k1 \in DOMAIN table[p] \cap DOMAIN batch[p] :
           \E k2 \in DOMAIN table[p] \ DOMAIN batch[p] :
              /\ batch[p][k1] = Dec(103020, <<3, 2, 3, 2, 3>>)
              /\ table[p][k1].price = Dec(103020, <<>>)
              /\ table[p][k2].price = Dec(1, <<2, 3>>)
        /\ ForeignKey \in DOMAIN batch[p]

C6_UnrecognizedIsEmptyBatch ==
    [][\A p \in PricePipes :
          /\ pc[p] = "tick" /\ Moved(p) /\ lastMsg'[p] = "Other" =>
                /\ pc'[p] = "send"
                /\ batch'[p] = EmptyMap
                /\ table'[p] = table[p]
                /\ result'[p] = "running"
                /\ sub'[p] = "live"
          /\ pc[p] = "send" /\ Moved(p) /\ lastMsg[p] = "Other"
                /\ receivers[p] > 0 =>
                /\ chan'[p] = table[p]
                /\ table'[p] = table[p]
                /\ pc'[p] = "sleep"
          /\ pc[p] = "sleep" /\ Moved(p) /\ lastMsg[p] = "Other" =>
                /\ pc'[p] = "tick"
                /\ result'[p] = "running"
                /\ sub'[p] = "live"
                /\ unsubs'[p] = 0]_vars

C6_Witness ==
    \E p \in PricePipes :
        /\ pc[p] = "sleep"
        /\ lastMsg[p] = "Other"
        /\ chan[p] = table[p]
        /\ sends[p] > 1

\* C7 as stated: a protocol-error message received by the orderbook mirror
\* ends the iteration and hands over to the supervisor's unsubscribe.
C7_BookProtocolErrorRestarts ==
    [][pc["book"] = "tick" /\ Moved("book")
          /\ lastMsg'["book"] = "HyperliquidError" =>
              pc'["book"] = "unsub"]_vars

\* C7 amended: the orderbook mirror logs a protocol-error message and goes
\* on: orderbook, channel and subscription are unchanged and the tick is
\* spent; its iteration ends, and the supervisor unsubscribes, only on a
\* failed publish, a closed feed channel or the tick bound.
C7_BookProtocolErrorIgnored ==
    [][/\ pc["book"] = "tick" /\ Moved("book")
             /\ lastMsg'["book"] = "HyperliquidError" =>
                /\ pc'["book"] = "sleep"
                /\ result'["book"] = "running"
                /\ sub'["book"] = sub["book"]
                /\ table'["book"] = table["book"]
                /\ chan'["book"] = chan["book"]
       /\ pc["book"] = "sleep" /\ Moved("book") =>
                pc'["book"] = "tick" /\ i'["book"] = i["book"] + 1
       /\ pc["book"] # "unsub" /\ pc'["book"] = "unsub" =>
                \/ result'["book"] = "err_send" /\ receivers["book"] = 0
                \/ result'["book"] = "ok" /\ lastMsg'["book"] = "None"
                \/ result'["book"] = "ok" /\ i["book"] = TickBound]_vars

C7_Witness ==
    /\ pc["book"] = "sleep"
    /\ lastMsg["book"] = "HyperliquidError"
    /\ result["book"] = "running"
    /\ sub["book"] = "live"

C9_NoTaskPanics == \A p \in Pipes : pc[p] # "panicked"

\* C10 as stated: on a subscription that reached the tick bound, every
\* consumed batch was published exactly once.
C10_EveryBatchPublishedOnce ==
    \A p \in Pipes :
        pc[p] = "unsub" /\ result[p] = "ok" /\ i[p] = TickBound =>
            sends[p] = consumed[p]

\* C10 amended: a subscription ended by the tick bound has seen exactly one
\* publish per pass of the loop (TickBound of them), none for the batch
\* consumed in Seeding; exactly one unsubscribe is issued for it, and every
\* later position inside an iteration is on a new subscription.  The
\* orderbook mirror publishes once per consumed snapshot.
C10_BoundaryRenewsSubscription ==
    \A p \in Pipes :
        /\ pc[p] = "unsub" /\ result[p] = "ok" /\ p \in PricePipes =>
              /\ i[p] = TickBound
              /\ sends[p] = TickBound
              /\ consumed[p] <= TickBound + 1
              /\ unsubs[p] = 0
        /\ pc[p] \in {"unsub", "backoff"} /\ result[p] = "ok" /\ p = "book" =>
              sends[p] = consumed[p] /\ sends[p] <= TickBound
        /\ pc[p] = "backoff" /\ result[p] = "ok" => unsubs[p] = 1
        /\ pc[p] \in InIteration => sub[p] = "live" /\ unsubs[p] = 0
        /\ pc[p] \in InIteration \ {"meta", "seed"} => i[p] <= TickBound

C10_Witness ==
    \E p \in PricePipes :
        /\ pc[p] = "backoff"
        /\ result[p] = "ok"
        /\ unsubs[p] = 1
        /\ sends[p] = TickBound
        /\ consumed[p] = TickBound + 1

\* C11: every read of the receiver a price task returned yields a table
\* with an entry for each listed instrument, never the empty initial table.
C11_ReceiverNeverEmpty ==
    \A p \in PricePipes :
        lastRead[p].fresh => DOMAIN Catalog(p) \subseteq DOMAIN lastRead[p].val

\* The call of the round_price_example binary: the BTC perpetual
\* (sz_decimals 5), seeded with 0.0, takes the raw price 103020.32323.
SeededBtcUpdated ==
    /\ call = [op |-> "update_price", price |-> Dec(103020, <<3, 2, 3, 2, 3>>)]
    /\ ~crashed
    /\ prev = PricePerp(Zero, PerpCatalog["BTC"])

\* C12 as stated: the update leaves 103020.3, one decimal place.
C12_UpdateKeepsOneDecimal ==
    SeededBtcUpdated => val.price = Dec(103020, <<3>>)

\* C12 amended: the update leaves 103020: the six integer digits use up the
\* five significant digits, so no decimal place is kept; the cap of one
\* place is only an upper limit.
C12_UpdateRoundsToInteger ==
    SeededBtcUpdated => val = PricePerp(Dec(103020, <<>>), PerpCatalog["BTC"])

C12_Witness ==
    /\ SeededBtcUpdated
    /\ get_sz_decimals(val.meta) = 5
    /\ get_value(val) = Dec(103020, <<>>)

\* The digits of a natural number without its trailing zeros.
RECURSIVE IntSigDigits(_)
IntSigDigits(n) ==
    IF n = 0 THEN 0
    ELSE IF n % 10 = 0 THEN IntSigDigits(n \div 10)
    ELSE NumDigits(n)

\* Significant digits of a decimal: from its first to its last non-zero
\* digit.
SigDigits(d) ==
    IF d.fr = <<>> THEN IntSigDigits(d.ip)
    ELSE IF d.ip > 0 THEN NumDigits(d.ip) + Len(d.fr)
    ELSE Len(d.fr) - (FirstNonZero(d.fr, 1) - 1)

\* round_price returned from a call on a positive price.
RoundedPositive ==
    /\ call.op = "round_price"
    /\ call.price # Zero
    /\ ~crashed

\* C13 as stated: for p > 0 and c >= s, round(p, c, s) has at most c - s
\* decimal places and at most 5 significant digits.
C13_AtMostFiveSignificant ==
    RoundedPositive =>
        /\ Len(ret.fr) <= call.max_decimals - call.sz_decimals
        /\ SigDigits(ret) <= SignificantDigits

\* C13 amended: round(p, c, s) has at most c - s decimal places; below
\* 100000 it has at most 5 significant digits; from 100000 on it is p
\* rounded to an integer, all of whose digits are kept.
C13_FiveSignificantBelowSixDigits ==
    /\ call.op = "round_price" /\ call.price # Zero => ~crashed
    /\ RoundedPositive =>
        /\ Len(ret.fr) <= call.max_decimals - call.sz_decimals
        /\ NumDigits(call.price.ip) <= SignificantDigits =>
              SigDigits(ret) <= SignificantDigits
        /\ NumDigits(call.price.ip) > SignificantDigits =>
              /\ ret.fr = <<>>
              /\ ret.ip \in {call.price.ip, call.price.ip + 1}

C13_Witness ==
    /\ RoundedPositive
    /\ call.price = Dec(1, <<2, 3, 4, 5, 6, 7>>)
    /\ call.max_decimals - call.sz_decimals = 6
    /\ ret = Dec(1, <<2, 3, 4, 6>>)

\* C14: round_price called on 0.0 returns 0.0, for every pair of caps,
\* without failing.
C14_RoundZeroIsZero ==
    call.op \in {"round_price", "round_again"} /\ call.price = Zero =>
        ~crashed /\ ret = Zero

\* C15: rounding is idempotent: round_price applied to what round_price
\* returned, with the same caps, returns it unchanged.
C15_RoundIdempotent ==
    call.op = "round_again" => ~crashed /\ ret = call.price

\* C16: every Price value built by new_spot, new_perp, from_meta,
\* update_price and from_new_price carries metadata of its own variant; a
\* constructor called with metadata of the other variant fails and yields
\* no value.
C16_VariantMatchesMeta ==
    /\ val.tag # "None" => val.tag = val.meta.tag
    /\ call.op = "new_spot" /\ ~is_spot(call.meta) => crashed
    /\ call.op = "new_perp" /\ ~is_perp(call.meta) => crashed
    /\ call.op = "from_meta" /\ ~crashed /\ call.price # Zero =>
          val.tag = call.meta.tag /\ val.meta = call.meta

C16_Witness ==
    /\ call.op = "new_perp"
    /\ is_spot(call.meta)
    /\ crashed
    /\ val.tag = "Spot"
    /\ is_spot(val.meta)
    /\ val.price # Zero

\* C17: the price stored in a Spot or Perp value is 0.0 or a fixed point of
\* the rounding rule of its variant and metadata.
C17_StoredPriceIsRounded ==
    val.tag # "None" /\ val.price # Zero =>
        /\ ~round_price_panics(val.price, MaxDecimalsOf(val),
                               get_sz_decimals(val.meta))
        /\ round_price(val.price, MaxDecimalsOf(val),
                       get_sz_decimals(val.meta)) = val.price

C17_Witness ==
    /\ call = [op |-> "update_price", price |-> Dec(1, <<2, 3, 4, 5, 6, 7>>)]
    /\ ~crashed
    /\ prev = PriceSpot(Dec(100000, <<>>), SpotCatalog["@1"])
    /\ val = PriceSpot(Dec(1, <<2, 3, 5>>), SpotCatalog["@1"])

\* C18: update_price changes only the stored price: the variant and every
\* field of the metadata are as before the call, for every input price.
C18_UpdateKeepsVariantAndMeta ==
    call.op = "update_price" =>
        /\ val.tag = prev.tag
        /\ val.tag # "None" => val.meta = prev.meta
        /\ val.tag = "None" => val = prev
        /\ crashed => val = prev

C18_Witness ==
    /\ call.op = "update_price"
    /\ ~crashed
    /\ prev.tag = "Perp"
    /\ val.meta = PerpCatalog["ETH"]
    /\ val.price # prev.price
    /\ prev.price # Zero

\* The orderbook levels made of a sequence of (price, size) pairs.
LevelsOf(xs) == [j \in 1..Len(xs) |-> OrderbookLevel(xs[j][1], xs[j][2])]

\* C19: once the mirror has processed a book snapshot, its orderbook holds
\* exactly the levels parsed from that message, in the message's order, and
\* nothing of an earlier message; the published map has the subscribed
\* coin as its only key, with that orderbook as its value.
C19_SnapshotReplacesBook ==
    /\ [](pc["book"] = "send" =>
            table["book"] =
                [coin |-> Coin,
                 bids |-> LevelsOf(parse_levels(batch["book"].bids)),
                 asks |-> LevelsOf(parse_levels(batch["book"].asks))])
    /\ [](sends["book"] > 0 => DOMAIN chan["book"] = {Coin})
    /\ [][pc["book"] = "send" /\ pc'["book"] = "sleep" =>
            /\ DOMAIN chan'["book"] = {Coin}
            /\ chan'["book"][Coin] = table["book"]]_vars

C19_Witness ==
    /\ pc["book"] = "sleep"
    /\ lastMsg["book"] = "L2Book"
    /\ sends["book"] = 2
    /\ chan["book"][Coin].bids = <<OrderbookLevel(Dec(100, <<>>), Dec(1, <<>>))>>
    /\ chan["book"][Coin].asks = <<>>

\* A level both of whose strings parse as numbers.
WellFormed(l) == l.px.ok /\ l.sz.ok

\* The well-formed levels of a side, in order, as orderbook levels.
KeptLevels(side) ==
    LET wf == SelectSeq(side, WellFormed)
    IN  [j \in 1..Len(wf) |-> OrderbookLevel(wf[j].px.val, wf[j].sz.val)]

\* C20: a level whose price or size string does not parse is left out of
\* its side, not replaced by a zero level; the well-formed levels are kept
\* in their order; and the message is processed without failure.
C20_MalformedLevelsDropped ==
    /\ [](pc["book"] = "send" =>
            /\ table["book"].bids = KeptLevels(batch["book"].bids)
            /\ table["book"].asks = KeptLevels(batch["book"].asks)
            /\ result["book"] = "running")
    /\ [][pc["book"] = "tick" /\ lastMsg'["book"] = "L2Book" =>
            pc'["book"] = "send" /\ result'["book"] = "running"]_vars

C20_Witness ==
    /\ pc["book"] = "send"
    /\ batch["book"].bids = <<Bid1, BadPx, Bid2>>
    /\ batch["book"].asks = <<BadSz, Ask1, Ask2>>
    /\ table["book"].bids = <<OrderbookLevel(Dec(100, <<>>), Dec(1, <<>>)),
                              OrderbookLevel(Dec(99, <<5>>), Dec(2, <<>>))>>
    /\ Len(table["book"].asks) = 2


\* a < b on decimals: integer parts first, then the fractions digit by digit.
DecLess(a, b) ==
    LET n == IF Len(a.fr) > Len(b.fr) THEN Len(a.fr) ELSE Len(b.fr)
        pad(fr) == [j \in 1..n |-> IF j <= Len(fr) THEN fr[j] ELSE 0]
    IN  \/ a.ip < b.ip
        \/ /\ a.ip = b.ip
           /\ \E j \in 1..n :
                 /\ pad(a.fr)[j] < pad(b.fr)[j]
                 /\ \A h \in 1..(j - 1) : pad(a.fr)[h] = pad(b.fr)[h]

\* The prices a side of a message carries, in order (a level whose price
\* string is not a number carries none).
HasPrice(l) == l.px.ok
SidePrices(side) ==
    LET ps == SelectSeq(side, HasPrice) IN [j \in 1..Len(ps) |-> ps[j].px.val]

StrictlyDescending(ps) ==
    \A j \in 1..(Len(ps) - 1) : DecLess(ps[j + 1], ps[j])
StrictlyAscending(ps) ==
    \A j \in 1..(Len(ps) - 1) : DecLess(ps[j], ps[j + 1])

PricesOf(levels) == [j \in 1..Len(levels) |-> levels[j].price]

\* C21: when a message's bids arrive strictly descending by price and its
\* asks strictly ascending, the orderbook built from it is sorted the same
\* way, so that best_bid() is its highest bid and best_ask() its lowest ask
\* (none on an empty side); and the orderbook changes only when a message
\* has been processed or a new subscription starts from the empty book.
C21_BookStaysSorted ==
    /\ [](pc["book"] = "send" =>
            LET m == batch["book"]
                ob == table["book"]
            IN  /\ StrictlyDescending(SidePrices(m.bids)) =>
                      /\ StrictlyDescending(PricesOf(ob.bids))
                      /\ best_bid(ob).some = (ob.bids # <<>>)
                      /\ \A j \in 1..Len(ob.bids) :
                            \/ ob.bids[j] = best_bid(ob).level
                            \/ DecLess(ob.bids[j].price,
                                       best_bid(ob).level.price)
                /\ StrictlyAscending(SidePrices(m.asks)) =>
                      /\ StrictlyAscending(PricesOf(ob.asks))
                      /\ best_ask(ob).some = (ob.asks # <<>>)
                      /\ \A j \in 1..Len(ob.asks) :
                            \/ ob.asks[j] = best_ask(ob).level
                            \/ DecLess(best_ask(ob).level.price,
                                       ob.asks[j].price))
    /\ [][table'["book"] # table["book"] =>
            \/ pc["book"] = "tick" /\ pc'["book"] = "send"
            \/ table'["book"] = Orderbook_new(Coin)]_vars

C21_Witness ==
    /\ pc["book"] = "send"
    /\ sends["book"] = 1
    /\ batch["book"].bids = <<BadSz, Bid1>>
    /\ batch["book"].asks = <<BadSz, Ask1, Ask2>>
    /\ best_bid(table["book"]) =
           SomeLevel(OrderbookLevel(Dec(100, <<>>), Dec(1, <<>>)))
    /\ best_ask(table["book"]) =
           SomeLevel(OrderbookLevel(Dec(100, <<5>>), Dec(3, <<>>)))
    /\ Len(table["book"].asks) = 2


\* The other price pipeline.
Other(p) == IF p = "perp" THEN "spot" ELSE "perp"

\* The components a pipeline owns.
Owned(p) == <<pc[p], sub[p], closed[p], i[p], table[p], batch[p], pending[p],
              chan[p], receivers[p], result[p], sends[p], unsubs[p]>>

\* C22: every step of one price pipeline (start, connect, subscribe,
\* seeding, update, publish, pause, failure, unsubscribe, restart) leaves
\* the other price pipeline's table, subscription, tick counter and channel
\* value unchanged, and so does every step that changes nothing of either.
C22_PipelinesShareNoState ==
    [][\A p \in PricePipes :
          Owned(p)' # Owned(p) =>
              /\ table'[Other(p)] = table[Other(p)]
              /\ sub'[Other(p)] = sub[Other(p)]
              /\ i'[Other(p)] = i[Other(p)]
              /\ chan'[Other(p)] = chan[Other(p)]
              /\ Owned(Other(p))' = Owned(Other(p))]_vars

\* Both pipelines have published their own table; the spot pipeline has
\* since failed on its feed and is about to restart, the perp one pauses.
C22_Witness ==
    /\ task = "prices"
    /\ pc["perp"] = "sleep" /\ sends["perp"] = 1
    /\ pc["spot"] = "backoff" /\ result["spot"] = "err_feed"
    /\ DOMAIN chan["perp"] = DOMAIN PerpCatalog
    /\ DOMAIN chan["spot"] = DOMAIN SpotCatalog
    /\ table["spot"] = chan["spot"]


\* The task of pipeline p has a step to take: it is neither unstarted, nor
\* dead, nor itself in a pause.
Ready(p) == pc[p] \notin {"idle", "panicked", "sleep", "backoff"}

\* C23: while one pipeline task is in its inter-tick pause or its restart
\* backoff, every other pipeline task that has a step to take can take it,
\* and the consumer can read the channels.
C23_PauseSuspendsOnlyItsTask ==
    \A p \in PricePipes :
        Pausing(p) =>
            /\ \A q \in PricePipes \ {p} : Ready(q) => ENABLED TaskStep(q)
            /\ \A q \in PricePipes : receivers[q] > 0 => ENABLED ConsumerStep(q)


\* The number the claim gives a decimal field.
C24_Expected(field) ==
    CASE field.json = "string" -> field.raw.val
      [] OTHER -> Zero

\* C24: a payload whose decimal fields are numeric strings, nulls or absent
\* deserializes, each field to its parsed number, to 0.0 for null and to
\* 0.0 for absent; a payload with a non-numeric string in a decimal field
\* fails to deserialize.
C24_DecimalFieldDeserialization ==
    LET obj == call.payload
        stringly == \A f \in DecimalFields : obj[f].json # "number"
        junk == \E f \in DecimalFields : obj[f] = JsonString(RawJunk)
    IN  call.op = "deserialize" /\ stringly =>
            IF junk THEN ~ret.ok
            ELSE /\ ret.ok
                 /\ \A f \in DecimalFields : ret.val[f] = C24_Expected(obj[f])


\* C25: get_asset_denom_size(size) is get_true_size(size / get_value()),
\* and on every Price whose value is 0.0 (Price::None, or a Spot or Perp
\* holding 0.0) it returns infinity or NaN, never a finite size.
C25_ZeroValueGivesNonFinite ==
    call.op = "get_asset_denom_size" =>
        /\ ret = get_true_size(prev, f64_div(call.size, get_value(prev)))
        /\ get_value(prev) = Zero => ~IsFinite(ret)

\* C25 as the code has it: a Spot or Perp holding 0.0 gives infinity or
\* NaN for every size; Price::None gives 0.0 for every size.
C25_ZeroPriceGivesNonFinite ==
    call.op = "get_asset_denom_size" =>
        /\ ret = get_true_size(prev, f64_div(call.size, get_value(prev)))
        /\ prev.tag # "None" /\ prev.price = Zero => ~IsFinite(ret)
        /\ prev.tag = "None" => ret = Zero

C25_Witness ==
    /\ call.op = "get_asset_denom_size"
    /\ call.size = Dec(10, <<>>)
    /\ prev = PriceSpot(Zero, SpotCatalog["@1"])
    /\ ret = Infinity


\* The positions of Seeding: the metadata fetch, then the first batch.
Seeding(p) == pc[p] \in {"meta", "seed"}

\* C26: in every iteration of a price pipeline the metadata is fetched
\* first, without touching the feed; then one message is taken from the
\* feed and the initial table, with an entry for every instrument of the
\* catalog, is built from it and the tick counter set to 0; nothing is
\* published in the iteration before that; and a failure of the metadata
\* fetch or of the feed read ends the iteration, unsubscribing, with no
\* publish made in it.
C26_SeedingOrder ==
    /\ [](\A p \in PricePipes :
            pc[p] \in {"client", "meta", "seed"} => sends[p] = 0)
    /\ [][\A p \in PricePipes :
            /\ pc[p] = "meta" =>
                  /\ pc'[p] \in {"meta", "seed", "unsub"}
                  /\ consumed'[p] = consumed[p] /\ closed'[p] = closed[p]
                  /\ lastMsg'[p] = lastMsg[p] /\ table'[p] = table[p]
                  /\ pc'[p] = "unsub" => result'[p] = "err_meta"
            /\ pc[p] = "seed" =>
                  /\ pc'[p] \in {"seed", "tick", "unsub"}
                  /\ pc'[p] = "tick" =>
                        /\ i'[p] = 0
                        /\ DOMAIN table'[p] = DOMAIN Catalog(p)
                        /\ lastMsg'[p] # "none"
                  /\ pc'[p] = "unsub" =>
                        result'[p] = "err_feed" /\ table'[p] = table[p]
            /\ pc'[p] = "seed" => pc[p] \in {"meta", "seed"}
            /\ Seeding(p) \/ pc[p] \in {"unsub", "backoff"} =>
                  chan'[p] = chan[p] /\ sends'[p] = sends[p]]_vars

C26_Witness ==
    /\ pc["spot"] = "tick"
    /\ lastMsg["spot"] = "AllMids"
    /\ consumed["spot"] = 1
    /\ i["spot"] = 0
    /\ sends["spot"] = 0
    /\ DOMAIN table["spot"] = DOMAIN SpotCatalog
    /\ table["spot"]["@1"].price = Dec(1, <<2, 3, 5>>)
    /\ chan["spot"] = EmptyMap


\* The positions inside the loop of start_sending.
InLoop == {"tick", "update", "send", "sleep"}

\* C27: on one subscription the tick counter starts at 0 and goes up by
\* exactly one per completed pass of the loop, never beyond the tick bound;
\* the publishes made on the subscription never outnumber the passes begun,
\* so there are at most TickBound of them; at the bound the loop ends
\* normally without consuming a message; and from there no message is
\* consumed until a new subscription has been made.
C27_TickBoundPerSubscription ==
    /\ [](\A p \in Pipes :
            /\ pc[p] \in InLoop =>
                  /\ i[p] <= TickBound
                  /\ sends[p] <= TickBound
                  /\ sends[p] <= i[p] + (IF pc[p] = "sleep" THEN 1 ELSE 0)
                  /\ pc[p] # "tick" => i[p] < TickBound
            /\ pc[p] \in {"unsub", "backoff"} => sends[p] <= TickBound)
    /\ [][\A p \in Pipes :
            /\ i'[p] # i[p] =>
                  \/ i'[p] = 0 /\ pc[p] \in {"subscribe", "seed"}
                  \/ i'[p] = i[p] + 1 /\ pc[p] = "sleep"
            /\ pc[p] = "sleep" /\ pc'[p] # "sleep" =>
                  pc'[p] = "tick" /\ i'[p] = i[p] + 1
            /\ pc[p] \in {"subscribe", "seed"} /\ pc'[p] = "tick" => i'[p] = 0
            /\ pc[p] = "tick" /\ i[p] = TickBound /\ pc'[p] # "tick" =>
                  /\ pc'[p] = "unsub" /\ result'[p] = "ok"
                  /\ consumed'[p] = consumed[p]
                  /\ lastMsg'[p] = lastMsg[p]
            /\ (consumed'[p] # consumed[p] /\ consumed'[p] # 0)
                  \/ closed'[p] # closed[p] =>
                  \/ pc[p] \in {"seed", "tick"} /\ sub[p] = "live"
                  \/ pc[p] = "subscribe" /\ sub'[p] = "live"
            /\ pc[p] \in {"unsub", "backoff", "new"} =>
                  pc'[p] \in {"unsub", "backoff", "new", "subscribe",
                              "panicked"}]_vars

C27_Witness ==
    \E p \in PricePipes :
        /\ pc[p] = "seed"
        /\ i[p] = TickBound
        /\ result[p] = "running"
        /\ sub[p] = "live"
        /\ chan[p] # EmptyMap
        /\ sends[p] = 0


Subscribed == {"client"} \cup InIteration

\* C29: in every pipeline a task holds at most one subscription, live and
\* not yet unsubscribed; an iteration that created its subscription ends
\* only by going to the unsubscribe, which is attempted exactly once, after
\* the last message of the iteration and before the next subscribe; and a
\* subscribe that fails is followed by the backoff, with no unsubscribe.
C29_SubscriptionsSequential ==
    /\ [](\A p \in Pipes :
            pc[p] \in Subscribed => sub[p] = "live" /\ unsubs[p] = 0)
    /\ [][\A p \in Pipes :
            /\ unsubs'[p] > unsubs[p] =>
                  pc[p] = "unsub" /\ unsubs[p] = 0 /\ unsubs'[p] = 1
            /\ pc[p] \in Subscribed /\ pc'[p] \notin Subscribed =>
                  pc'[p] = "unsub"
            /\ pc[p] = "unsub" /\ Moved(p) =>
                  /\ pc'[p] = "backoff"
                  /\ unsubs'[p] = 1
                  /\ consumed'[p] = consumed[p]
            /\ pc[p] = "subscribe" /\ pc'[p] \notin Subscribed /\ Moved(p) =>
                  pc'[p] = "backoff" /\ unsubs'[p] = unsubs[p]
            /\ pc'[p] = "subscribe" /\ Moved(p) => pc[p] = "new"
            /\ pc'[p] = "new" /\ Moved(p) => pc[p] \in {"idle", "backoff"}]_vars


\* C30: once recv() has returned None, the table is not changed again in
\* that iteration; the orderbook mirror leaves its loop at that receive,
\* without publishing; a price pipeline takes that receive and every later
\* one as an empty batch and republishes the unchanged table, until the
\* tick bound ends the iteration; and the pipeline eventually holds a new
\* subscription.
C30_ClosedFeedRestarts ==
    /\ [][\A p \in Pipes :
            /\ closed'[p] /\ pc[p] # "seed" => table'[p] = table[p]
            /\ p = "book" /\ closed'[p] /\ ~closed[p] =>
                  /\ pc'[p] = "unsub" /\ result'[p] = "ok"
                  /\ chan'[p] = chan[p] /\ sends'[p] = sends[p]
            /\ p \in PricePipes /\ closed'[p] /\ pc[p] = "tick" /\ Moved(p) =>
                  IF i[p] < TickBound
                  THEN pc'[p] = "send" /\ batch'[p] = EmptyMap
                  ELSE pc'[p] = "unsub" /\ result'[p] = "ok"
            /\ p \in PricePipes /\ closed[p] /\ pc[p] = "send" /\ Moved(p)
                  /\ receivers[p] > 0 =>
                  pc'[p] = "sleep" /\ chan'[p] = table[p]]_vars
    /\ \A p \in Pipes :
          closed[p] ~> (~closed[p] /\ sub[p] = "live" /\ pc[p] \in Subscribed)


\* The messages of the book feed that are not a snapshot.
NotSnapshot == {"NoData", "HyperliquidError", "Other"}

\* C31: the orderbook mirror publishes only after a book snapshot; a
\* NoData, protocol-error or unrecognized message leaves the orderbook and
\* the channel value unchanged and publishes nothing, and the pass it was
\* received in still ends with the pause and counts as one tick.
C31_BookPublishesOnlySnapshots ==
    /\ [](pc["book"] = "send" => lastMsg["book"] = "L2Book")
    /\ [](pc["book"] = "sleep" /\ lastMsg["book"] \in NotSnapshot =>
            sends["book"] <= i["book"])
    /\ [][/\ chan'["book"] # chan["book"] \/ sends'["book"] > sends["book"] =>
                /\ pc["book"] = "send"
                /\ lastMsg["book"] = "L2Book"
                /\ sends'["book"] = sends["book"] + 1
          /\ pc["book"] = "tick" /\ lastMsg'["book"] \in NotSnapshot =>
                /\ pc'["book"] = "sleep"
                /\ table'["book"] = table["book"]
                /\ chan'["book"] = chan["book"]
                /\ sends'["book"] = sends["book"]
                /\ consumed'["book"] = consumed["book"]
                /\ i'["book"] = i["book"]
          /\ pc["book"] = "sleep" /\ lastMsg["book"] \in NotSnapshot
                /\ Moved("book") =>
                /\ pc'["book"] = "tick"
                /\ i'["book"] = i["book"] + 1
                /\ table'["book"] = table["book"]
                /\ chan'["book"] = chan["book"]
                /\ sends'["book"] = sends["book"]]_vars

C31_Witness ==
    /\ pc["book"] = "tick"
    /\ i["book"] = TickBound
    /\ sends["book"] = 1
    /\ consumed["book"] = 1
    /\ chan["book"][Coin] = table["book"]
    /\ table["book"].bids # <<>>


\* C32: Price::None is absorbing and total: update_price and from_new_price
\* called on it, with any price, leave it Price::None, and get_value,
\* get_true_size, get_value_after_slippage and get_true_price_for_asset
\* called on it return 0.0, for any argument; none of them fails.
C32_NoneIsAbsorbing ==
    /\ call.op \in {"update_price", "from_new_price"} /\ prev = PriceNone =>
          ~crashed /\ val = PriceNone
    /\ call.op \in {"get_value", "get_true_size", "get_value_after_slippage",
                    "get_true_price_for_asset"} /\ prev = PriceNone =>
          ~crashed /\ val = PriceNone /\ ret = Zero

\* get_true_price_for_asset(103020.32323) asked of Price::None.
C32_Witness ==
    /\ call = [op |-> "get_true_price_for_asset",
               price |-> Dec(103020, <<3, 2, 3, 2, 3>>)]
    /\ prev = PriceNone
    /\ val = PriceNone
    /\ ret = Zero
    /\ ~crashed


\* C33: max_decimals - sz_decimals never wraps or fails: every value that
\* new_spot, new_perp or from_meta builds, and every later update of it,
\* succeeds, has sz_decimals <= max_decimals (8 for Spot, 6 for Perp), and
\* holds a price of at most max_decimals decimal places.
C33_CapNeverWraps ==
    call.op \in {"from_meta", "update_price"} =>
        /\ ~crashed
        /\ get_sz_decimals(val.meta) <= MaxDecimalsOf(val)
        /\ Len(val.price.fr) <= MaxDecimalsOf(val)

=============================================================================
